---- MODULE Spec2Model ----
(***************************************************************************)
(* Model of src/llm.py: the streaming turn controller (make_api_call), the *)
(* stream consumer (stream_response), the confirmation and execution gate  *)
(* (execute_command), the directive scanner (extract_run_command and the   *)
(* regular expression it shares with make_api_call) and the top-level     *)
(* loop (main).                                                            *)
(*                                                                         *)
(* Text is a sequence of one-character strings, so that the regular        *)
(* expression \[RUN:?\s*([^\]]+)\] and str.strip() are computed character  *)
(* by character.  A whole fixed text that carries no bracket (the system   *)
(* prompt, the user's question, "Command failed.") is one element.         *)
(***************************************************************************)
EXTENDS Naturals, Sequences, FiniteSets

\* ------------------------------------------------------------------ bounds
\* A question is submitted at the prompt only while the history holds fewer
\* entries than this.
MaxHistory == 2
\* Content deltas delivered by the transport for one question (both streams
\* together).
MaxChunks == 2
\* Nested execute_command calls made for an edited command.
MaxEdits == 1
\* Request threads left over from cancelled calls and still waiting for the
\* transport when a question is submitted.
MaxOrphans == 1
\* Records put together to make an input of the markup-stripping operation.
MaxPieces == 3

\* ---------------------------------------------------------------- the text
\* str.strip(): the only whitespace of the model's alphabet is the blank.
IsSpace(c) == c = " "

RECURSIVE LStrip(_)
LStrip(s) ==
  IF s # <<>> /\ IsSpace(Head(s)) THEN LStrip(Tail(s)) ELSE s

RECURSIVE RStrip(_)
RStrip(s) ==
  IF s # <<>> /\ IsSpace(s[Len(s)]) THEN RStrip(SubSeq(s, 1, Len(s) - 1)) ELSE s

Strip(s) == RStrip(LStrip(s))

\* The literal prefix "[RUN" of the pattern, found in s at index i.
RunKeywordAt(s, i) ==
  /\ i + 3 <= Len(s)
  /\ s[i] = "[" /\ s[i + 1] = "R" /\ s[i + 2] = "U" /\ s[i + 3] = "N"

\* The ways \[RUN:?\s*([^\]]+)\] matches s starting at index i: c is the
\* number of characters taken by ":?", w by "\s*", g by the group, and the
\* closing bracket follows the group.
RunMatchesAt(s, i) ==
  IF ~RunKeywordAt(s, i)
  THEN {}
  ELSE { m \in (0..1) \X (0..(Len(s) - i)) \X (1..(Len(s) - i)) :
           LET c == m[1]
               w == m[2]
               g == m[3]
               ws == i + 4 + c
               gs == ws + w
               cl == gs + g
           IN /\ cl <= Len(s)
              /\ c = 1 => s[i + 4] = ":"
              /\ \A k \in ws..(gs - 1) : IsSpace(s[k])
              /\ \A k \in gs..(cl - 1) : s[k] # "]"
              /\ s[cl] = "]" }

\* The match the backtracking engine returns at i: ":?" and "\s*" are greedy,
\* so the colon is taken when a match with it exists, then the longest run
\* of whitespace that still leaves the group one character.
RunMatchAt(s, i) ==
  LET ms == RunMatchesAt(s, i)
      c  == IF \E m \in ms : m[1] = 1 THEN 1 ELSE 0
      mc == { m \in ms : m[1] = c }
  IN CHOOSE m \in mc : \A n \in mc : n[2] <= m[2]

\* re.search: the index of the leftmost match, 0 when there is none.
RunSearch(s) ==
  LET starts == { i \in 1..Len(s) : RunMatchesAt(s, i) # {} }
  IN IF starts = {} THEN 0
     ELSE CHOOSE i \in starts : \A j \in starts : i <= j

HasRun(s) == RunSearch(s) # 0

\* The leftmost match: its start and its decomposition.
RunMatch(s) ==
  CHOOSE p \in { <<i, RunMatchAt(s, i)>> : i \in {RunSearch(s)} } : TRUE

\* The index of the closing bracket of the leftmost match.
RunMatchEnd(s) ==
  LET p == RunMatch(s)
  IN p[1] + 4 + p[2][1] + p[2][2] + p[2][3]

\* match.group(1) of the leftmost match.
RunGroup(s) ==
  LET p == RunMatch(s)
      gs == p[1] + 4 + p[2][1] + p[2][2]
  IN SubSeq(s, gs, gs + p[2][3] - 1)

\* Python's None.
None == <<"None">>

\* extract_run_command
extract_run_command(content) ==
  IF HasRun(content) THEN Strip(RunGroup(content)) ELSE None

\* Truth value of an Optional[str]: None and "" are false.
Truthy(v) == v # None /\ v # <<>>

\* re.sub(r'\[RUN:?\s*[^\]]+\]', '', s): every match, left to right, removed.
RECURSIVE ReSubRun(_)
ReSubRun(s) ==
  IF ~HasRun(s) THEN s
  ELSE SubSeq(s, 1, RunSearch(s) - 1)
         \o ReSubRun(SubSeq(s, RunMatchEnd(s) + 1, Len(s)))

\* (Mutant of CleanContent: the result is not trimmed.)
CleanContentUntrimmed(s) == ReSubRun(s)

\* re.sub(...).strip(), the text committed in place of a response whose
\* directive is not acted upon.
CleanContent(s) == Strip(ReSubRun(s))

\* ------------------------------------------------------------- the history
SystemMsg == [role |-> "system", content |-> <<"SYSTEM_PROMPT">>]
UserMsg == [role |-> "user", content |-> <<"q">>]
AssistantMsg(c) == [role |-> "assistant", content |-> c]
FailedMsg == [role |-> "user", content |-> <<"Command failed.">>]
OutputMsg(out) == [role |-> "user", content |-> <<"Command output:\n">> \o out]

\* messages after import: the system prompt, which is configured.
InitialMessages == <<SystemMsg>>

\* ------------------------------------------------------------ the transport
\* Content deltas the model may send in one record: prose, whitespace, a
\* directive cut after its keyword and its remainder, a whole directive, and
\* a directive whose argument is one blank.
Chunks ==
  { <<"a">>,
    <<" ">>,
    <<"[", "R", "U", "N">>,
    <<":", "l", "]">>,
    <<"[", "R", "U", "N", ":", "l", "]">>,
    <<"[", "R", "U", "N", ":", " ", "]">> }

\* The total_tokens of a usage reading.
UsageTotal == 7

\* What requests.post may come to: a 200 response, another status, an
\* exception.
PostOutcomes == {"ok", "http_error", "exception"}

\* What subprocess.run may come to: exit code 0, another exit code,
\* TimeoutExpired, any other exception (the command could not be launched).
ExecOutcomes == {"exit_zero", "exit_nonzero", "timeout", "launch_failure"}

\* Stands for an exception that leaves execute_command; the code returns the
\* statuses 0, 1 and 2 only.
Raised == [output |-> <<"None">>, status |-> 3]

\* (Mutant of RunOutcome: line 254 is missing, the exception is not caught.)
RunOutcomeUncaught(o) ==
  IF o = "exit_zero" THEN [output |-> <<"o">>, status |-> 0]
  ELSE IF o = "exit_nonzero"
  THEN [output |-> <<"[Command failed with exit code 2]\n", "o">>, status |-> 1]
  ELSE IF o = "timeout"
  THEN [output |-> <<"[Command timed out after 30 seconds]">>, status |-> 1]
  ELSE Raised

\* Lines 239-255: the (output, status) execute_command returns.
RunOutcome(o) ==
  IF o = "exit_zero" THEN [output |-> <<"o">>, status |-> 0]
  ELSE IF o = "exit_nonzero"
  THEN [output |-> <<"[Command failed with exit code 2]\n", "o">>, status |-> 1]
  ELSE IF o = "timeout"
  THEN [output |-> <<"[Command timed out after 30 seconds]">>, status |-> 1]
  ELSE [output |-> <<"[Command failed: e]">>, status |-> 1]

ExecResults == { RunOutcome(o) : o \in ExecOutcomes }

\* What input() may return in the gate.
Replies == {"run", "edit", "decline"}
EditedCommands == { <<>>, <<"e">> }

VARIABLES
  messages,           \* the conversation history
  cancel_event,       \* threading.Event, set by the SIGINT handler
  spinner_stop,       \* threading.Event
  pc,                 \* where the foreground is
  recursive,          \* the parameter of the make_api_call in progress
  result,             \* what make_api_call returned to main
  response_ready,     \* threading.Event of the call in progress
  response_container, \* {'response', 'error'} of the call in progress
  netpc,              \* where the request thread of the call in progress is
  gen,                \* where the stream_response generator is
  genUsage,           \* usage_data['total_tokens'] of stream_response
  chunk,              \* the text stream_response yielded, until it is used
  full_content,
  buffer,
  displayed,          \* the text of the last live.update
  command_detected,
  last_render_length,
  gateStack,          \* the execute_command frames, innermost last
  exec_result,        \* what the gate returned
  clean_content,      \* the local of line 543
  reply,              \* the last reply the gate read at line 235
  run_cmd,            \* the command subprocess.run is running
  spinnerAlive,       \* the spinner thread of the call in progress runs
  oldSpinner,         \* a spinner thread of an earlier call still runs
  orphans,            \* request threads of earlier calls still in requests.post
  stalled,            \* more than 30 seconds have passed since last_chunk_time
  \* history variables, read by the properties only
  hist0,              \* messages before the user's input was appended
  nchunks,            \* content deltas delivered since the last user input
  genEnd,             \* why stream_response left its loop
  execCount,          \* subprocess.run calls since the last user input
  postCount,          \* requests.post calls since the last user input
  sigSeen,            \* SIGINT arrived since the last user input
  sigGate,            \* SIGINT arrived while the gate waited for input
  sigWait,            \* SIGINT arrived while a top-level call waited for the
                      \* transport or for a record
  exitKind            \* how the call returned to main

vars ==
  << messages, cancel_event, spinner_stop, pc, recursive, result,
     response_ready, response_container, netpc, gen, genUsage, chunk,
     full_content, buffer, displayed, command_detected,
     last_render_length, gateStack, exec_result, clean_content,
     reply, run_cmd, spinnerAlive, oldSpinner, orphans, stalled,
     hist0, nchunks, genEnd, execCount, postCount, sigSeen, sigGate, sigWait,
     exitKind >>

netVars == << response_ready, response_container, netpc, orphans >>
spinVars == << spinnerAlive, oldSpinner >>
genVars == << gen, genUsage, chunk, nchunks, stalled, genEnd >>
renderVars ==
  << full_content, buffer, displayed, command_detected,
     last_render_length >>
gateVars ==
  << gateStack, exec_result, clean_content, reply, run_cmd, execCount >>
turnVars == << hist0, postCount >>

NoResult == [output |-> None, status |-> 2]

\* The state after import, but for where the foreground is and the text it
\* holds.
InitFrame ==
  /\ messages = InitialMessages
  /\ cancel_event = FALSE
  /\ spinner_stop = FALSE
  /\ recursive = FALSE
  /\ result = TRUE
  /\ response_ready = FALSE
  /\ response_container = [response |-> FALSE, error |-> FALSE]
  /\ netpc = "idle"
  /\ gen = "none"
  /\ genUsage = 0
  /\ chunk = <<>>
  /\ buffer = <<>>
  /\ displayed = <<>>
  /\ command_detected = FALSE
  /\ last_render_length = 0
  /\ gateStack = <<>>
  /\ exec_result = NoResult
  /\ clean_content = <<>>
  /\ reply = "none"
  /\ run_cmd = None
  /\ spinnerAlive = FALSE
  /\ oldSpinner = FALSE
  /\ orphans = 0
  /\ stalled = FALSE
  /\ hist0 = InitialMessages
  /\ nchunks = 0
  /\ genEnd = "none"
  /\ execCount = 0
  /\ postCount = 0
  /\ sigSeen = FALSE
  /\ sigGate = FALSE
  /\ sigWait = FALSE
  /\ exitKind = "none"

Init ==
  /\ InitFrame
  /\ pc = "loop"
  /\ full_content = <<>>

\* ------------------------------------------------------------------- main
\* make_api_call returns val to main; kind records the return statement.
Return(val, kind) ==
  /\ pc' = "ret"
  /\ result' = val
  /\ exitKind' = kind

\* main, line 654: the top of the loop clears the flag and waits for input.
\* The history variables of the turn that ended are forgotten here.
MainLoopTop ==
  /\ pc = "loop"
  /\ cancel_event' = FALSE
  /\ pc' = "prompt"
  /\ result' = TRUE
  /\ hist0' = messages
  /\ execCount' = 0
  /\ postCount' = 0
  /\ sigSeen' = FALSE
  /\ sigGate' = FALSE
  /\ sigWait' = FALSE
  /\ exitKind' = "none"
  /\ nchunks' = 0
  /\ UNCHANGED << messages, spinner_stop, recursive, netVars, gen, genUsage,
                  chunk, stalled, genEnd, renderVars, gateStack, exec_result,
                  clean_content, reply, run_cmd, spinVars >>

\* main, lines 676-680: a question is appended and make_api_call(False) called.
UserInput ==
  /\ pc = "prompt"
  /\ Len(messages) < MaxHistory
  /\ netpc \notin {"idle", "done"} => orphans < MaxOrphans
  /\ messages' = Append(messages, UserMsg)
  /\ hist0' = messages
  /\ recursive' = FALSE
  /\ pc' = "call"
  /\ UNCHANGED << cancel_event, spinner_stop, result, netVars, spinVars,
                  genVars, renderVars, gateVars, postCount,
                  sigSeen, sigGate, sigWait,
                  exitKind >>

\* (Mutant of ClearedMessages: the system prompt is not put back.)
ClearedMessagesEmpty == <<>>

\* Lines 139-141: the history /clear leaves, the system prompt being configured.
ClearedMessages == <<SystemMsg>>

\* clear_conversation, reached by /clear (main, lines 668-670).
clear_conversation ==
  /\ pc = "prompt"
  /\ messages' = ClearedMessages
  /\ pc' = "loop"
  /\ UNCHANGED << cancel_event, spinner_stop, recursive, result, netVars,
                  spinVars, genVars, renderVars, gateVars, turnVars, sigSeen,
                  sigGate, sigWait, exitKind >>

\* main, lines 672-674 and 691-693: /exit or Ctrl+D at the prompt ends the loop.
Exit ==
  /\ pc = "prompt"
  /\ pc' = "exited"
  /\ UNCHANGED << messages, cancel_event, spinner_stop, recursive, result,
                  netVars, spinVars, genVars, renderVars, gateVars, turnVars,
                  sigSeen, sigGate, sigWait, exitKind >>

\* (Mutant of AfterCallMessages: main never pops the question.)
AfterCallMessagesKept(msgs, res, cancelled) == msgs

\* The history main keeps after a call: the trailing user entry is popped
\* when the call failed and the flag is set.
AfterCallMessages(msgs, res, cancelled) ==
  IF ~res /\ cancelled /\ msgs # <<>> /\ msgs[Len(msgs)].role = "user"
  THEN SubSeq(msgs, 1, Len(msgs) - 1)
  ELSE msgs

\* main, lines 682-686.  The frames of make_api_call are gone: their local
\* variables take their initial values again.
MainAfterCall ==
  /\ pc = "ret"
  /\ messages' = AfterCallMessages(messages, result, cancel_event)
  /\ pc' = "loop"
  /\ recursive' = FALSE
  /\ gen' = "none"
  /\ genUsage' = 0
  /\ chunk' = <<>>
  /\ full_content' = <<>>
  /\ buffer' = <<>>
  /\ displayed' = <<>>
  /\ command_detected' = FALSE
  /\ last_render_length' = 0
  /\ gateStack' = <<>>
  /\ exec_result' = NoResult
  /\ clean_content' = <<>>
  /\ reply' = "none"
  /\ run_cmd' = None
  /\ stalled' = FALSE
  /\ genEnd' = "none"
  /\ UNCHANGED << cancel_event, spinner_stop, result, netVars, spinVars,
                  nchunks, execCount, turnVars,
                  sigSeen, sigGate, sigWait, exitKind >>

\* Where a call waits with nothing committed yet: in the loop of lines
\* 404-408, and in next(stream_iter) at line 435 or line 491.
SuspensionPoints == {"wait_ready", "wait_cancel", "first_next", "loop_next"}

\* handle_sigint: Ctrl+C at any moment.
handle_sigint ==
  /\ cancel_event' = TRUE
  /\ spinner_stop' = TRUE
  /\ sigSeen' = (sigSeen \/ pc \notin {"loop", "prompt"})
  /\ sigGate' = (sigGate \/ pc \in {"gate_decision", "gate_edit"})
  /\ sigWait' = (sigWait \/ (~recursive /\ pc \in SuspensionPoints))
  /\ UNCHANGED << messages, pc, recursive, result, netVars, spinVars,
                  genVars, renderVars, gateVars, turnVars, exitKind >>

\* ------------------------------------------------ make_api_call: the request
\* Lines 350-401: both flags are cleared, the spinner thread and the request
\* thread are started.  The threads of an earlier call are not waited for:
\* its spinner, and its request thread when still in requests.post, run on.
ApiCallStart ==
  /\ pc = "call"
  /\ cancel_event' = FALSE
  /\ spinner_stop' = FALSE
  /\ response_ready' = FALSE
  /\ response_container' = [response |-> FALSE, error |-> FALSE]
  /\ netpc' = "posting"
  /\ postCount' = postCount + 1
  /\ gen' = "none"
  /\ genUsage' = 0
  /\ chunk' = <<>>
  /\ full_content' = <<>>
  /\ buffer' = <<>>
  /\ displayed' = <<>>
  /\ command_detected' = FALSE
  /\ last_render_length' = 0
  /\ gateStack' = <<>>
  /\ exec_result' = NoResult
  /\ clean_content' = <<>>
  /\ reply' = "none"
  /\ run_cmd' = None
  /\ stalled' = FALSE
  /\ genEnd' = "none"
  /\ spinnerAlive' = TRUE
  /\ oldSpinner' = (oldSpinner \/ spinnerAlive)
  /\ orphans' = IF netpc \in {"idle", "done"} THEN orphans ELSE orphans + 1
  /\ pc' = "wait_ready"
  /\ UNCHANGED << messages, recursive, result, execCount, hist0, nchunks,
                  sigSeen, sigGate, sigWait, exitKind >>

\* Lines 381-395: the slot after requests.post came to outcome o.
SlotWritten(container, o, cancelled) ==
  IF cancelled THEN container
  ELSE IF o = "ok" THEN [container EXCEPT !.response = TRUE]
  ELSE [container EXCEPT !.error = TRUE]

\* The foreground has left the call that started the request thread.
CallOver == pc \in {"ret", "loop", "prompt", "exited"}

\* Lines 365-378 in the request thread: requests.post returns or raises.
requests_post ==
  /\ netpc = "posting"
  /\ \E o \in PostOutcomes : netpc' = o
  /\ UNCHANGED << messages, cancel_event, spinner_stop, pc, recursive, result,
                  response_ready, response_container, orphans, spinVars,
                  genVars, renderVars, gateVars, turnVars,
                  sigSeen, sigGate, sigWait,
                  exitKind >>

\* make_request, lines 381-397: the slot is written unless the flag is set,
\* and the ready signal is set in every case.
make_request ==
  /\ netpc \in PostOutcomes
  /\ response_container' = SlotWritten(response_container, netpc, cancel_event)
  /\ response_ready' = TRUE
  /\ netpc' = "done"
  /\ UNCHANGED << messages, cancel_event, spinner_stop, pc, recursive, result,
                  orphans, spinVars, genVars, renderVars, gateVars, turnVars,
                  sigSeen, sigGate, sigWait, exitKind >>

\* (Mutant of OrphanSlot: the slot is shared by all calls.)
OrphanSlotShared(current, o, cancelled) == SlotWritten(current, o, cancelled)

\* Line 361 and lines 389-395: the slot of the call in progress after a
\* request thread of an earlier call finished.  That thread's closure holds
\* the dictionary its own call created, so this one is not written.
OrphanSlot(current, o, cancelled) == current

\* make_request in a thread left over from an earlier call: it tests the
\* module-level cancel_event and writes the slot of its own call.
orphan_request ==
  /\ orphans > 0
  /\ orphans' = orphans - 1
  /\ \E o \in PostOutcomes :
       response_container' = OrphanSlot(response_container, o, cancel_event)
  /\ UNCHANGED << messages, cancel_event, spinner_stop, pc, recursive, result,
                  response_ready, netpc, spinVars, genVars, renderVars,
                  gateVars, turnVars, sigSeen, sigGate, sigWait, exitKind >>

\* Line 404, and lines 410-432 once the ready signal is seen.
WaitReady ==
  /\ pc = "wait_ready"
  /\ IF ~response_ready
     THEN /\ pc' = "wait_cancel"
          /\ UNCHANGED << spinner_stop, result, exitKind, gen >>
     ELSE IF response_container.error
     THEN /\ spinner_stop' = TRUE
          /\ Return(FALSE, "transport_error")
          /\ UNCHANGED gen
     ELSE IF ~response_container.response
     THEN /\ spinner_stop' = TRUE
          /\ Return(FALSE, "no_response")
          /\ UNCHANGED gen
     ELSE /\ pc' = "first_next"
          /\ gen' = "running"
          /\ UNCHANGED << spinner_stop, result, exitKind >>
  /\ UNCHANGED << messages, cancel_event, recursive, netVars, spinVars,
                  genUsage, chunk, nchunks, stalled, genEnd, renderVars,
                  gateVars, turnVars, sigSeen, sigGate, sigWait >>

\* Lines 405-408.
WaitCancel ==
  /\ pc = "wait_cancel"
  /\ IF cancel_event
     THEN /\ spinner_stop' = TRUE
          /\ Return(FALSE, "cancelled")
     ELSE /\ pc' = "wait_ready"
          /\ UNCHANGED << spinner_stop, result, exitKind >>
  /\ UNCHANGED << messages, cancel_event, recursive, netVars, spinVars,
                  genVars, renderVars, gateVars, turnVars,
                  sigSeen, sigGate, sigWait >>

\* ---------------------------------------------------------- stream_response
\* The foreground is inside next(stream_iter): line 435 or line 491.
InNext == pc \in {"first_next", "loop_next"}

\* yield text, usage_data: next() returns to the foreground.
Yield(text) ==
  /\ chunk' = text
  /\ pc' = IF pc = "first_next" THEN "first_got" ELSE "loop_got"
  /\ UNCHANGED << spinner_stop, result, exitKind >>

\* The generator returns (response.close() in its finally): StopIteration in
\* the foreground, lines 437-447 on the first read, else the for loop ends.
StopIteration ==
  /\ chunk' = chunk
  /\ IF pc = "first_next"
     THEN /\ spinner_stop' = TRUE
          /\ Return(recursive, "empty_stream")
     ELSE /\ pc' = "final_update"
          /\ UNCHANGED << spinner_stop, result, exitKind >>

\* Lines 339-344, after the loop over the lines has ended.
EndOfLines ==
  IF genUsage > 0
  THEN gen' = "final" /\ Yield(<<>>)
  ELSE gen' = "closed" /\ StopIteration

genFrame ==
  UNCHANGED << messages, cancel_event, recursive, netVars, spinVars,
               renderVars, gateVars, turnVars, sigSeen, sigGate, sigWait >>

\* Lines 286-287: a line arrives while the flag is set.
StreamCancelled ==
  /\ InNext /\ gen = "running"
  /\ cancel_event
  /\ EndOfLines
  /\ genEnd' = "cancelled"
  /\ stalled' = FALSE
  /\ UNCHANGED << genUsage, nchunks >>
  /\ genFrame

\* Lines 304-328: a record with a content delta.
StreamContent ==
  /\ InNext /\ gen = "running"
  /\ ~cancel_event /\ ~stalled
  /\ nchunks < MaxChunks
  /\ \E c \in Chunks : Yield(c)
  /\ nchunks' = nchunks + 1
  /\ UNCHANGED << gen, genUsage, stalled, genEnd >>
  /\ genFrame

\* Lines 321-331: a record with a finish reason, no content and no usage.
StreamFinish ==
  /\ InNext /\ gen = "running"
  /\ ~cancel_event /\ ~stalled
  /\ Yield(<<>>)
  /\ UNCHANGED << gen, genUsage, nchunks, stalled, genEnd >>
  /\ genFrame

\* Lines 313-318 and 329-331: a record with a usage reading and no content.
StreamUsage ==
  /\ InNext /\ gen = "running"
  /\ ~cancel_event /\ ~stalled
  /\ genUsage' = UsageTotal
  /\ Yield(<<>>)
  /\ UNCHANGED << gen, nchunks, stalled, genEnd >>
  /\ genFrame

\* Lines 293-294 and 304: an empty line, or a line that is no data line: the
\* loop goes on.
StreamSkip ==
  /\ InNext /\ gen = "running"
  /\ ~cancel_event /\ ~stalled
  /\ UNCHANGED vars

\* The exception leaves stream_response (its finally closes the response) and
\* reaches lines 448-453 on the first read, lines 606-611 later.
Raise(reason) ==
  /\ gen' = "closed"
  /\ genEnd' = reason
  /\ stalled' = FALSE
  /\ IF pc = "first_next"
     THEN spinner_stop' = TRUE /\ Return(FALSE, "stream_error")
     ELSE spinner_stop' = spinner_stop /\ Return(FALSE, "exception")
  /\ UNCHANGED << chunk, genUsage, nchunks >>
  /\ genFrame

\* The records that are not well formed: bytes that are not UTF-8, text that
\* is not JSON, JSON that is no object, an object whose usage is a number,
\* whose choices is null or empty, whose first choice is null, or whose delta
\* is null.
MalformedKinds ==
  { "undecodable", "invalid_json", "non_object", "usage_number",
    "null_choices", "empty_choices", "null_choice", "null_delta" }

\* Lines 299-302 and 309-337: whether the record raises an exception that no
\* except clause of stream_response names.  UnicodeDecodeError,
\* JSONDecodeError, TypeError (None[0]) and IndexError ([][0]) are named;
\* the AttributeError of calling .get on what is no dict is not.
RecordRaises(kind) ==
  kind \in {"non_object", "usage_number", "null_choice", "null_delta"}

\* A malformed record arrives.
StreamMalformed ==
  /\ InNext /\ gen = "running"
  /\ ~cancel_event /\ ~stalled
  /\ \E kind \in MalformedKinds :
       IF RecordRaises(kind) THEN Raise("malformed") ELSE UNCHANGED vars

\* Lines 306-307, or iter_lines ending because the transport closed.
StreamDone ==
  /\ InNext /\ gen = "running"
  /\ ~cancel_event
  /\ EndOfLines
  /\ genEnd' = "terminator"
  /\ stalled' = FALSE
  /\ UNCHANGED << genUsage, nchunks >>
  /\ genFrame

\* Thirty seconds pass with the generator blocked in iter_lines.
StallWindow ==
  /\ InNext /\ gen = "running"
  /\ ~stalled
  /\ stalled' = TRUE
  /\ UNCHANGED << messages, cancel_event, spinner_stop, pc, recursive, result,
                  netVars, spinVars, gen, genUsage, chunk, nchunks, genEnd,
                  renderVars, gateVars, turnVars, sigSeen, sigGate, sigWait,
                  exitKind >>

\* Lines 289-291: a line arrives more than 30 seconds after the last record.
\* The test is made in the body of the loop, so only when a line arrives.
StreamStalled ==
  /\ InNext /\ gen = "running"
  /\ ~cancel_event
  /\ stalled
  /\ EndOfLines
  /\ genEnd' = "stalled"
  /\ stalled' = FALSE
  /\ UNCHANGED << genUsage, nchunks >>
  /\ genFrame

\* next() after the final usage yield of line 341: the generator returns.
StreamResume ==
  /\ InNext /\ gen = "final"
  /\ gen' = "closed"
  /\ StopIteration
  /\ UNCHANGED << genUsage, nchunks, stalled, genEnd >>
  /\ genFrame

\* iter_lines raises (the connection breaks): lines 448-453 on the first
\* read, lines 606-611 later.
StreamRaise ==
  /\ InNext /\ gen = "running"
  /\ Raise("transport_error")

\* ------------------------------------------------- make_api_call: rendering
\* Line 512: a refresh is forced when this many characters are not shown.
ContentDeltaThreshold == 50

\* Lines 436 and 455-488: the first chunk.
ProcessFirst ==
  /\ pc = "first_got"
  /\ spinner_stop' = TRUE
  /\ IF cancel_event
     THEN /\ Return(FALSE, "cancelled")
          /\ UNCHANGED << full_content, buffer, displayed, command_detected,
                          last_render_length >>
     ELSE /\ full_content' = chunk
          /\ buffer' = chunk
          /\ command_detected' = HasRun(chunk)
          /\ IF ~HasRun(chunk) /\ Strip(chunk) # <<>>
             THEN displayed' = chunk /\ last_render_length' = Len(chunk)
             ELSE displayed' = displayed /\ last_render_length' = 0
          /\ pc' = IF HasRun(chunk) THEN "check_cancel" ELSE "loop_next"
          /\ UNCHANGED << result, exitKind >>
  /\ chunk' = <<>>
  /\ UNCHANGED << messages, cancel_event, recursive, netVars, spinVars, gen,
                  genUsage, nchunks, stalled, genEnd, gateVars, turnVars,
                  sigSeen, sigGate, sigWait >>

\* Lines 492-515: one more chunk; timeElapsed is whether update_interval has
\* passed since the last refresh.
ProcessChunk ==
  /\ pc = "loop_got"
  /\ IF cancel_event
     THEN /\ Return(FALSE, "cancelled")
          /\ UNCHANGED renderVars
     ELSE /\ full_content' = full_content \o chunk
          /\ buffer' = buffer \o chunk
          /\ command_detected' = HasRun(buffer')
          /\ \E timeElapsed \in BOOLEAN :
               IF /\ ~HasRun(buffer')
                  /\ \/ timeElapsed
                     \/ Len(full_content') - last_render_length
                          > ContentDeltaThreshold
               THEN /\ displayed' = full_content'
                    /\ last_render_length' = Len(full_content')
               ELSE UNCHANGED << displayed, last_render_length >>
          /\ pc' = IF HasRun(buffer') THEN "final_update" ELSE "loop_next"
          /\ UNCHANGED << result, exitKind >>
  /\ chunk' = <<>>
  /\ UNCHANGED << messages, cancel_event, spinner_stop, recursive, netVars,
                  spinVars, gen, genUsage, nchunks, stalled, genEnd, gateVars,
                  turnVars, sigSeen, sigGate, sigWait >>

\* Lines 517-526: the last refresh, inside the Live region.
FinalUpdate ==
  /\ pc = "final_update"
  /\ IF ~command_detected /\ ~cancel_event
     THEN IF HasRun(full_content)
          THEN command_detected' = TRUE /\ UNCHANGED displayed
          ELSE IF Strip(full_content) # <<>>
          THEN displayed' = full_content /\ UNCHANGED command_detected
          ELSE UNCHANGED << displayed, command_detected >>
     ELSE UNCHANGED << displayed, command_detected >>
  /\ pc' = "check_cancel"
  /\ UNCHANGED << messages, cancel_event, spinner_stop, recursive, result,
                  netVars, spinVars, genVars, full_content, buffer,
                  last_render_length, gateVars, turnVars,
                  sigSeen, sigGate, sigWait,
                  exitKind >>

\* ------------------------------------------- make_api_call: the end of a turn
\* (Mutant of ShouldGate: line 536 without the test of the recursive flag.)
ShouldGateIgnoringRecursive(command, rec) == Truthy(command)

\* Line 536: whether the gate is entered for the response.
ShouldGate(command, rec) == Truthy(command) /\ ~rec

\* Lines 594-598: what a turn that runs no command commits to the history.
CommittedContent(content, rec) ==
  IF rec /\ Truthy(extract_run_command(content))
  THEN CleanContent(content)
  ELSE content

\* (Mutant of DeclinedMessages: the response is committed as received.)
DeclinedMessagesKeepingMarkup(msgs, content) ==
  Append(msgs, AssistantMsg(content))

\* Lines 541-546: the history after the gate returned (None, 2).
DeclinedMessages(msgs, content) ==
  IF CleanContent(content) # <<>>
  THEN Append(msgs, AssistantMsg(CleanContent(content)))
  ELSE msgs

\* (Mutant of CommandMessages: the response is committed without its markup.)
CommandMessagesStripped(msgs, content, r) ==
  msgs \o << AssistantMsg(CleanContent(content)),
             IF r.status # 0 THEN FailedMsg ELSE OutputMsg(r.output) >>

\* Lines 549-560: the history after the command ran.
CommandMessages(msgs, content, r) ==
  msgs \o << AssistantMsg(content),
             IF r.status # 0 THEN FailedMsg ELSE OutputMsg(r.output) >>

\* Lines 528-538 and 565-599.  The statistics line is output only.
CheckCancel ==
  /\ pc = "check_cancel"
  /\ IF cancel_event
     THEN /\ Return(FALSE, "cancelled")
          /\ UNCHANGED << messages, gateStack >>
     ELSE IF ShouldGate(extract_run_command(full_content), recursive)
     THEN /\ gateStack' = << [cmd |-> extract_run_command(full_content),
                              inExcept |-> FALSE] >>
          /\ pc' = "gate_decision"
          /\ UNCHANGED << messages, result, exitKind >>
     ELSE /\ messages' =
               Append(messages,
                      AssistantMsg(CommittedContent(full_content, recursive)))
          /\ Return(TRUE, "completed")
          /\ UNCHANGED gateStack
  /\ UNCHANGED << cancel_event, spinner_stop, recursive, netVars, spinVars,
                  genVars, renderVars, exec_result, clean_content, reply,
                  run_cmd, execCount,
                  turnVars, sigSeen, sigGate, sigWait >>

\* ---------------------------------------------------------- execute_command
\* (None, 2) is returned through every frame; lines 541-546 follow.
Declined ==
  /\ gateStack' = <<>>
  /\ exec_result' = NoResult
  /\ clean_content' = CleanContent(full_content)
  /\ reply' = "none"
  /\ run_cmd' = None
  /\ messages' = DeclinedMessages(messages, full_content)
  /\ Return(TRUE, "declined")

\* (Mutant of SubprocessCommand: the command of the response is run, not
\* its replacement.)
SubprocessCommandOriginal(stack) == stack[1].cmd

\* Lines 240-241: subprocess.run(cmd, ...) with the parameter of the frame
\* that read the reply.
SubprocessCommand(stack) == stack[Len(stack)].cmd

\* Line 229: the command printed above the question the gate is waiting at.
PromptedCommand(stack) == stack[Len(stack)].cmd

\* Lines 235-237, 256 and 276: the reply to [Y]es / [n]o / [e]dit.
GateDecide ==
  /\ pc = "gate_decision"
  /\ \E r \in Replies :
       \/ /\ r = "run"
          /\ pc' = "executing"
          /\ reply' = r
          /\ run_cmd' = SubprocessCommand(gateStack)
          /\ execCount' = execCount + 1
          /\ UNCHANGED << messages, result, exitKind, gateStack, exec_result,
                          clean_content >>
       \/ /\ r = "edit"
          /\ pc' = "gate_edit"
          /\ reply' = r
          /\ UNCHANGED << messages, result, exitKind, gateStack, exec_result,
                          clean_content, run_cmd, execCount >>
       \/ /\ r = "decline"
          /\ Declined
          /\ UNCHANGED execCount
  /\ UNCHANGED << cancel_event, spinner_stop, recursive, netVars, spinVars,
                  genVars, renderVars, turnVars, sigSeen, sigGate, sigWait >>

\* Lines 264-269 and 271-275: the edited command.
GateEdit ==
  /\ pc = "gate_edit"
  /\ \E edited_cmd \in EditedCommands :
       IF edited_cmd # <<>>
       THEN /\ Len(gateStack) <= MaxEdits
            /\ gateStack' =
                 Append(gateStack, [cmd |-> edited_cmd, inExcept |-> FALSE])
            /\ pc' = "gate_decision"
            /\ UNCHANGED << messages, result, exitKind, exec_result,
                            clean_content, reply, run_cmd >>
       ELSE Declined
  /\ UNCHANGED << cancel_event, spinner_stop, recursive, netVars, spinVars,
                  genVars, renderVars, execCount, turnVars, sigSeen,
                  sigGate, sigWait >>

\* An exception leaves the frames above: a frame inside its try (line 267)
\* catches it at line 270 and reads the command again at line 271; a frame
\* already in its except clause lets it through.
RECURSIVE Unwind(_)
Unwind(st) ==
  IF st = <<>> THEN <<>>
  ELSE IF ~st[Len(st)].inExcept
  THEN [st EXCEPT ![Len(st)].inExcept = TRUE]
  ELSE Unwind(SubSeq(st, 1, Len(st) - 1))

\* input() raises EOFError (Ctrl+D): at line 235 the frame is left, at line
\* 264 the frame's own except clause catches it; an exception that leaves
\* every frame reaches lines 606-611.
GateEOF ==
  /\ pc \in {"gate_decision", "gate_edit"}
  /\ gateStack' =
       IF pc = "gate_decision"
       THEN Unwind(SubSeq(gateStack, 1, Len(gateStack) - 1))
       ELSE Unwind(gateStack)
  /\ IF gateStack' = <<>>
     THEN Return(FALSE, "exception")
     ELSE pc' = "gate_edit" /\ UNCHANGED << result, exitKind >>
  /\ UNCHANGED << messages, cancel_event, spinner_stop, recursive, netVars,
                  spinVars, genVars, renderVars, exec_result, clean_content,
                  reply, run_cmd, execCount, turnVars, sigSeen, sigGate, sigWait >>

\* Lines 240-255 and 548-563: subprocess.run ends, the history gains the
\* response and the follow-up, and make_api_call(recursive=True) is called.
\* An exception that left execute_command would take the way of GateEOF.
ExecFinish ==
  /\ pc = "executing"
  /\ \E o \in ExecOutcomes :
       LET r == RunOutcome(o) IN
       /\ exec_result' = r
       /\ run_cmd' = None
       /\ IF r = Raised
          THEN /\ gateStack' =
                    Unwind(SubSeq(gateStack, 1, Len(gateStack) - 1))
               /\ IF gateStack' = <<>>
                  THEN Return(FALSE, "exception")
                  ELSE pc' = "gate_edit" /\ UNCHANGED << result, exitKind >>
               /\ UNCHANGED << messages, recursive, reply >>
          ELSE /\ messages' = CommandMessages(messages, full_content, r)
               /\ reply' = "none"
               /\ gateStack' = <<>>
               /\ recursive' = TRUE
               /\ pc' = "call"
               /\ UNCHANGED << result, exitKind >>
  /\ UNCHANGED << cancel_event, spinner_stop, netVars, spinVars, genVars,
                  renderVars, clean_content, execCount, turnVars, sigSeen,
                  sigGate, sigWait >>

\* ------------------------------------------------------------------ spinner
\* Lines 202-209 in the thread of the call in progress or in a thread of an
\* earlier call: a frame is written while the flag is clear; once the flag
\* is seen set the line is erased and the thread ends.  join(timeout=0.2)
\* in the foreground returns whether or not the thread has ended.
spinner ==
  /\ \E t \in {"current", "earlier"} :
       /\ IF t = "current" THEN spinnerAlive ELSE oldSpinner
       /\ IF ~spinner_stop
          THEN UNCHANGED spinVars
          ELSE IF t = "current"
          THEN spinnerAlive' = FALSE /\ UNCHANGED oldSpinner
          ELSE oldSpinner' = FALSE /\ UNCHANGED spinnerAlive
  /\ UNCHANGED << messages, cancel_event, spinner_stop, pc, recursive, result,
                  netVars, genVars, renderVars, gateVars, turnVars, sigSeen,
                  sigGate, sigWait, exitKind >>

\* ------------------------------------------------------- the specification
Next ==
  \/ MainLoopTop
  \/ UserInput
  \/ clear_conversation
  \/ Exit
  \/ MainAfterCall
  \/ handle_sigint
  \/ ApiCallStart
  \/ requests_post
  \/ make_request
  \/ orphan_request
  \/ spinner
  \/ WaitReady
  \/ WaitCancel
  \/ StreamCancelled
  \/ StreamContent
  \/ StreamFinish
  \/ StreamUsage
  \/ StreamSkip
  \/ StreamMalformed
  \/ StreamDone
  \/ StallWindow
  \/ StreamStalled
  \/ StreamResume
  \/ StreamRaise
  \/ ProcessFirst
  \/ ProcessChunk
  \/ FinalUpdate
  \/ CheckCancel
  \/ GateDecide
  \/ GateEdit
  \/ GateEOF
  \/ ExecFinish

Spec == Init /\ [][Next]_vars

\* The steps the program takes by itself: they need no line from the
\* transport, no answer to requests.post, no key pressed and no signal.
\* subprocess.run has a timeout.
Foreground ==
  \/ MainLoopTop
  \/ MainAfterCall
  \/ ApiCallStart
  \/ WaitReady
  \/ WaitCancel
  \/ StreamResume
  \/ ProcessFirst
  \/ ProcessChunk
  \/ FinalUpdate
  \/ CheckCancel
  \/ ExecFinish

\* Each of the three threads is scheduled.
Fairness ==
  /\ WF_vars(Foreground)
  /\ WF_vars(make_request)
  /\ WF_vars(spinner)

LiveSpec == Spec /\ Fairness

\* ------------------------------------------- the markup-stripping operation
\* The texts made of at most n records.
RECURSIVE Pieces(_)
Pieces(n) ==
  IF n = 0 THEN { <<>> }
  ELSE Pieces(n - 1) \cup { s \o c : s \in Pieces(n - 1), c \in Chunks }

StripInputs == Pieces(MaxPieces)

StripInit ==
  /\ InitFrame
  /\ pc = "strip"
  /\ full_content \in StripInputs

\* re.sub(r'\[RUN:?\s*[^\]]+\]', '', full_content).strip() of lines 543 and
\* 596, applied to the text.
StripApply ==
  /\ pc = "strip"
  /\ clean_content' = CleanContent(full_content)
  /\ pc' = "stripped"
  /\ UNCHANGED << messages, cancel_event, spinner_stop, recursive, result,
                  netVars, spinVars, genVars, renderVars, gateStack,
                  exec_result, reply, run_cmd, execCount, turnVars, sigSeen, sigGate, sigWait,
                  exitKind >>

StripNext == StripApply

StripSpec == StripInit /\ [][StripNext]_vars

\* ------------------------------------------------------------- properties
Last(msgs) == msgs[Len(msgs)]

\* The history when the gate of a top-level turn is entered.
TurnBase == Append(hist0, UserMsg)

\* The follow-up message for a command that ran.
FollowUp(r) == IF r.status = 0 THEN OutputMsg(r.output) ELSE FailedMsg

\* The index of a trailing open bracket from which the text is a prefix of
\* the keyword token "[RUN", looked for in the last ten characters; 0 when
\* there is none.
PossiblePrefixStart(b) ==
  LET token == <<"[", "R", "U", "N">>
      cands == { i \in 1..Len(b) :
                   /\ Len(b) - i + 1 <= 10
                   /\ Len(b) - i + 1 <= Len(token)
                   /\ \A k \in 1..(Len(b) - i + 1) : b[i + k - 1] = token[k] }
  IN IF cands = {} THEN 0 ELSE CHOOSE i \in cands : \A j \in cands : i <= j

\* C1: whenever control is at the top-level prompt, the last entry of the
\* history is not a user message.
C1_NoDanglingUser ==
  pc = "prompt" => (messages # <<>> => Last(messages).role # "user")

\* C2: between a user input and the return to the prompt subprocess.run is
\* called at most once.
C2_AtMostOneExecution == execCount <= 1

\* A continuation turn completed with a directive in its response, after the
\* command of the top-level response ran.
C2_Witness ==
  /\ pc = "ret" /\ recursive /\ exitKind = "completed"
  /\ HasRun(full_content)
  /\ execCount = 1

\* C3: after a top-level transport failure with no cancellation signalled, the
\* history on return to the loop is the history before the user's input.
C3_TransportFailureRestoresHistory ==
  (pc = "loop" /\ exitKind = "transport_error" /\ postCount = 1 /\ ~sigSeen)
    => messages = hist0

\* C4: while the stream is open and the buffer holds no complete directive,
\* the displayed text stops before a trailing possible prefix of the keyword.
C4_PrefixHidden ==
  (pc = "loop_next" /\ ~HasRun(buffer) /\ PossiblePrefixStart(buffer) # 0)
    => Len(displayed) < PossiblePrefixStart(buffer)

\* C5: when a complete directive has been received, the displayed text stops
\* before the directive's opening bracket.
C5_DirectiveNeverDisplayed ==
  (command_detected /\ HasRun(buffer))
    => Len(displayed) < RunSearch(buffer)

\* C6, as stated: a declined top-level turn returns True, runs nothing, issues
\* no continuation request, appends no user message, and appends the response
\* with the directive markup removed exactly when that text is non-empty.
C6_DeclineCommitsRemainder ==
  (pc = "ret" /\ exitKind = "declined")
    => /\ result
       /\ execCount = 0
       /\ postCount = 1
       /\ messages =
            IF ReSubRun(full_content) # <<>>
            THEN Append(TurnBase, AssistantMsg(ReSubRun(full_content)))
            ELSE TurnBase

\* C6, amended: the text appended is the response with the directive markup
\* removed and the surrounding whitespace trimmed, appended exactly when
\* that trimmed text is non-empty.
C6_DeclineCommitsTrimmedRemainder ==
  (pc = "ret" /\ exitKind = "declined")
    => /\ result
       /\ execCount = 0
       /\ postCount = 1
       /\ messages =
            IF Strip(ReSubRun(full_content)) # <<>>
            THEN Append(TurnBase, AssistantMsg(Strip(ReSubRun(full_content))))
            ELSE TurnBase

\* A declined turn whose response had prose around the directive.
C6_Witness ==
  /\ pc = "ret" /\ exitKind = "declined"
  /\ Len(messages) = Len(TurnBase) + 1
  /\ Last(messages).role = "assistant"

C8_ContinuationCommitsNoMarkup ==
  /\ recursive => pc \notin {"gate_decision", "gate_edit", "executing"}
  /\ (pc = "ret" /\ recursive /\ exitKind = "completed")
       => ~HasRun(Last(messages).content)

\* C9: a top-level turn whose stream ended with no content text and no usage
\* reading returns failure and appends no assistant message.
C9_EmptyTopLevelFails ==
  (/\ pc = "ret" /\ ~recursive
   /\ exitKind \in {"empty_stream", "completed"}
   /\ full_content = <<>> /\ genUsage = 0)
    => (~result /\ messages = TurnBase)

\* C10: after a cancellation signalled while the gate waits for input, no
\* command is executed, no continuation request is issued and the turn ends
\* as cancelled.
C10_GateCancellationHonoured ==
  sigGate => /\ execCount = 0
             /\ postCount <= 1
             /\ pc = "ret" => ~result

\* C11: no turn ends because a malformed record arrived: the record is
\* skipped, whatever its kind.
C11_MalformedRecordSkipped == genEnd # "malformed"

\* C12: once the inactivity window has passed with no record, the chunk
\* sequence ends, with no further line from the transport.
C12_StallEndsSequence == stalled ~> (gen # "running")

\* C13: the first entry of the history is the system message and no other
\* entry has the role system.
C13_SystemMessageFirst ==
  /\ messages # <<>>
  /\ messages[1] = SystemMsg
  /\ \A i \in 2..Len(messages) : messages[i].role # "system"

\* /clear was used after a turn had made the history longer.
C13_Witness ==
  /\ pc = "loop"
  /\ messages = <<SystemMsg>>
  /\ Len(hist0) > 1

C15_ExecutionFailureFedBack ==
  [][ (pc = "executing" /\ pc' # "executing")
        => /\ exec_result'.status \in {0, 1}
           /\ pc' = "call" /\ recursive'
           /\ result' = result /\ exitKind' = exitKind
           /\ exec_result'.status = 1 => Last(messages') = FailedMsg
    ]_vars

\* The continuation request is about to be issued after the command could
\* not be launched.
C15_Witness ==
  /\ pc = "call" /\ recursive
  /\ exec_result = RunOutcome("launch_failure")
  /\ Last(messages) = FailedMsg

\* C16: an assistant message is appended to the history only when the stream
\* has been read to its terminator, and it holds all the content received.
C16_CommitsCompleteResponse ==
  [][ (/\ Len(messages') > Len(messages)
       /\ messages'[Len(messages) + 1].role = "assistant")
        => /\ gen = "closed" /\ genEnd = "terminator"
           /\ messages'[Len(messages) + 1].content = full_content
    ]_vars

\* C17: while the command runs, the stream of the turn has been read to its
\* end and its response is closed.
C17_CommandAfterStreamEnd ==
  pc = "executing" => (gen = "closed" /\ genEnd = "terminator")

\* C18: the slot of the call in progress is written by the request thread of
\* that call only (after its creation), a request thread left over from an
\* earlier call leaves the slot and the ready signal alone, and the
\* foreground leaves its wait for the slot only when the ready signal is set.
C18_SlotWrittenByOwnTask ==
  [][ /\ response_container' # response_container
           => (pc = "call" \/ (netpc \in PostOutcomes /\ netpc' = "done"))
      /\ orphans' < orphans
           => (response_container' = response_container
               /\ response_ready' = response_ready)
      /\ (pc = "wait_ready" /\ pc' \notin {"wait_ready", "wait_cancel"})
           => response_ready
    ]_vars

\* A request thread of a cancelled call is still running while a later call
\* is about to read the slot its own request thread has written.
C18_Witness ==
  /\ orphans > 0
  /\ pc = "wait_ready"
  /\ response_ready /\ response_container.response

\* C19: a response obtained by a request thread is stored in the slot of a
\* call still in progress, and a call that returns with a response in its slot
\* has handed it to stream_response, which closes it.
C19_EveryResponseClosed ==
  [][ /\ (netpc = "ok" /\ netpc' = "done")
           => (response_container'.response /\ ~CallOver)
      /\ (pc' = "ret" /\ response_container'.response) => gen' # "none"
    ]_vars

\* Inside the Live region of lines 483-523.
Rendering == pc \in {"loop_next", "loop_got", "final_update"}

\* C20: no spinner thread runs while the renderer displays the content, and
\* no spinner thread of an earlier call runs once a call has cleared the
\* stop flag.
C20_IndicatorRetired ==
  /\ Rendering => ~spinnerAlive
  /\ ~oldSpinner

\* C21: when SIGINT arrived while a top-level call waited for the transport,
\* for the first record or between records, the history main is left with
\* at the top of its loop is the history before the question was appended.
C21_CancelRetractsInput ==
  (pc = "loop" /\ sigWait) => messages = hist0

\* Back at the top of the loop after a turn that was cancelled between
\* records, content having been received.
C21_Witness ==
  /\ pc = "loop" /\ sigWait
  /\ exitKind = "cancelled"
  /\ nchunks > 0
  /\ messages = hist0

\* C22: a continuation call whose stream ended on the test of the
\* cancellation flag returns failure.
C22_ContinuationCancelFails ==
  (pc = "ret" /\ recursive /\ genEnd = "cancelled") => ~result

\* C23: every assistant message of the history has non-empty content.
C23_AssistantContentNonEmpty ==
  \A i \in 1..Len(messages) :
    messages[i].role = "assistant" => messages[i].content # <<>>

\* C24: subprocess.run is entered only from the gate's question, on the
\* reply Run, with the command printed above that question; an edit with a
\* non-empty replacement leads to the question for the replacement and
\* runs nothing.
C24_RunsConfirmedCommand ==
  [][ /\ (pc' = "executing" /\ pc # "executing") => pc = "gate_decision"
      /\ pc' = "executing"
           => (reply' = "run" /\ run_cmd' = PromptedCommand(gateStack'))
      /\ (pc = "gate_edit" /\ pc' = "gate_decision")
           => /\ Len(gateStack') = Len(gateStack) + 1
              /\ PromptedCommand(gateStack') # <<>>
              /\ run_cmd' = None
              /\ execCount' = execCount
    ]_vars

\* The replacement of an edited command runs, the reply to its own question
\* having been Run.
C24_Witness ==
  /\ pc = "executing"
  /\ Len(gateStack) = 2
  /\ reply = "run"
  /\ run_cmd = gateStack[2].cmd
  /\ run_cmd # gateStack[1].cmd
====
